---- MODULE Spec2Model ----
(***************************************************************************)
(* A state-machine model of the video-captioning repository:              *)
(*   models.py  Decoder.forward, CaptionGenerator.forward_decoder,        *)
(*              CaptionGenerator.beam_search                              *)
(*   utils.py   LossChecker, get_predicted_captions, score, save_result,  *)
(*              idxs_to_sentence, cls_to_dict, dict_to_cls                *)
(*                                                                         *)
(* Log-probabilities are modelled as negative integers (only their order  *)
(* and their sums matter), quotients as exact fractions [num, den].       *)
(***************************************************************************)
EXTENDS Integers, Sequences, FiniteSets, TLC

VARIABLES
    \* ---- the model under decoding and its inputs
    weights,            \* the decoder's learned parameters
    feats,              \* feats[b]: the feature tensor of batch element b
    batch_size,         \* feats.size(0)
    max_caption_len,    \* CaptionGenerator.max_caption_len
    sort_tie,           \* how the library's sort / max orders equal values
    dec_calls,          \* number of Decoder.forward calls made so far
    \* ---- CaptionGenerator.beam_search
    bs_pc, width, alpha, t,
    input_list, hidden_list, cum_prob_list, output_list,
    raw_output_list,    \* `output` as returned by the decoder (line 162)
    beam_output_list, normalized_beam_output_list, beam_hidden_list,
    beam_topk_output_index_list,
    outputs,
    \* ---- CaptionGenerator.forward / forward_decoder
    fw_pc, fw_t,
    fw_caller,              \* who called forward: train, test or another caller
    fw_outputs,             \* the (max_caption_len + 2, batch, vocab) buffer
    fw_output,              \* `output`: the next input token per batch element
    fw_hidden,
    captions,               \* [given, data]: None, or the (time, batch) tensor
    teacher_forcing_ratio,  \* in units of 1 / DrawLevels
    fw_draw,                \* the last value of random.random(), same units
    captions_reads,         \* number of reads of captions.data
    fw_writes,              \* the time indices assigned in outputs, in order
    \* ---- LossChecker
    num_losses, losses,
    lc_op,                  \* the last call: none, update or mean
    lc_status,              \* how it ended: ok, AssertionError, ZeroDivisionError
    lc_last,                \* the `last` argument of the last mean call
    mean_losses,            \* what the last call returned (<<>>: nothing)
    \* ---- score / save_result
    vid2pred,               \* ordered: a sequence of [vid, pred]
    vid2GTs,                \* a function from its video ids to reference lists
    sr_op,                  \* the call made: none, score or save_result
    sr_status,              \* ok, AssertionError or KeyError
    scorer_calls,           \* the (ref, hypo) arguments of compute_score calls
    final_scores,           \* the metric names score returned
    save_dpath_exists,      \* os.path.exists(save_dpath)
    makedirs_calls,         \* number of os.makedirs calls
    fout,                   \* [opened, lines]: the result file
    \* ---- idxs_to_sentence
    its_pc,                 \* idle, call or returned
    idxs,                   \* the index sequence passed
    sentence,               \* the string returned, as its pieces
    \* ---- cls_to_dict / dict_to_cls
    cfg_pc,                 \* idle, config, saved or restored
    config,                 \* the configuration class given to save_checkpoint
    config_dict,            \* cls_to_dict(config), the checkpoint's 'config'
    config_restored,        \* dict_to_cls(config_dict)
    \* ---- get_predicted_captions
    py_major,               \* the major version of the Python interpreter
    dict_order,             \* the order in which a dict lists its entries
    data_iter,              \* the batches: each [vids, feats]
    gp_pc,
    gp_batch,               \* number of batches scanned
    onlyonce_dataset,       \* ordered: a sequence of [vid, feat]
    gp_vids, gp_feats,      \* `vids`, `feats` of build_onlyonce_iter
    onlyonce_iter,          \* the chunks: each [vids, feats]
    gp_chunk,               \* number of chunks described
    describe_calls,         \* the feats argument of each describe call
    gp_vid2pred,            \* vid2pred; returned when gp_pc = "done"
    gp_beam_width,          \* the parameters beam_width and beam_alpha
    gp_beam_alpha,
    describe_kwargs,        \* beam_width and beam_alpha of each describe call
    \* ---- evaluate
    ev_pc,
    ev_given,               \* which keyword arguments the caller passed
    ev_beam_width,          \* the parameters beam_width and beam_alpha
    ev_beam_alpha

beam_vars == <<bs_pc, width, alpha, t, input_list, hidden_list, cum_prob_list,
               output_list, raw_output_list, beam_output_list,
               normalized_beam_output_list, beam_hidden_list,
               beam_topk_output_index_list, outputs>>
model_vars == <<weights, feats, batch_size, max_caption_len, sort_tie, dec_calls>>
fwd_vars == <<fw_pc, fw_t, fw_caller, fw_outputs, fw_output, fw_hidden, captions,
              teacher_forcing_ratio, fw_draw, captions_reads, fw_writes>>
loss_vars == <<num_losses, losses, lc_op, lc_status, lc_last, mean_losses>>
score_vars == <<vid2pred, vid2GTs, sr_op, sr_status, scorer_calls, final_scores,
                save_dpath_exists, makedirs_calls, fout>>
sent_vars == <<its_pc, idxs, sentence>>
cfg_vars == <<cfg_pc, config, config_dict, config_restored>>
pred_vars == <<py_major, dict_order, data_iter, gp_pc, gp_batch, onlyonce_dataset,
               gp_vids, gp_feats, onlyonce_iter, gp_chunk, describe_calls,
               gp_vid2pred, gp_beam_width, gp_beam_alpha, describe_kwargs>>
eval_vars == <<ev_pc, ev_given, ev_beam_width, ev_beam_alpha>>
vars == <<model_vars, beam_vars, fwd_vars, loss_vars, score_vars, sent_vars,
          cfg_vars, pred_vars, eval_vars>>

\* What an action of one component leaves alone.
BeamFrame == UNCHANGED <<fwd_vars, loss_vars, score_vars, sent_vars, cfg_vars, pred_vars, eval_vars>>
FwdFrame == UNCHANGED <<beam_vars, loss_vars, score_vars, sent_vars, cfg_vars, pred_vars, eval_vars>>
LossFrame == UNCHANGED <<model_vars, beam_vars, fwd_vars, score_vars, sent_vars, cfg_vars, pred_vars, eval_vars>>
ScoreFrame == UNCHANGED <<model_vars, beam_vars, fwd_vars, loss_vars, sent_vars, cfg_vars, pred_vars, eval_vars>>
CfgFrame == UNCHANGED <<model_vars, beam_vars, fwd_vars, loss_vars, score_vars,
                        sent_vars, pred_vars, eval_vars>>
PredFrame == UNCHANGED <<model_vars, beam_vars, fwd_vars, loss_vars, score_vars,
                         sent_vars, cfg_vars, eval_vars>>
SentFrame == UNCHANGED <<model_vars, beam_vars, fwd_vars, loss_vars, score_vars, cfg_vars, pred_vars, eval_vars>>

---------------------------------------------------------------------------
\* Each component at rest: the state of its variables while another
\* component runs.

ModelIdle ==
    /\ weights = 0 /\ feats = <<>> /\ batch_size = 0 /\ max_caption_len = 0
    /\ sort_tie = "first" /\ dec_calls = 0

BeamIdle ==
    /\ bs_pc = "idle" /\ width = 1 /\ alpha = 0 /\ t = 0
    /\ input_list = <<>> /\ hidden_list = <<>> /\ cum_prob_list = <<>>
    /\ output_list = <<>> /\ raw_output_list = <<>> /\ beam_output_list = <<>>
    /\ normalized_beam_output_list = <<>> /\ beam_hidden_list = <<>>
    /\ beam_topk_output_index_list = <<>>
    /\ outputs = <<>>

FwdIdle ==
    /\ fw_pc = "idle" /\ fw_caller = "none" /\ fw_t = 0 /\ fw_outputs = <<>> /\ fw_output = <<>>
    /\ fw_hidden = <<>> /\ captions = [given |-> FALSE, data |-> <<>>] /\ teacher_forcing_ratio = 0
    /\ fw_draw = 0 /\ captions_reads = 0 /\ fw_writes = <<>>

LossIdle ==
    /\ num_losses = 0 /\ losses = <<>>
    /\ lc_op = "idle" /\ lc_status = "ok" /\ lc_last = 0 /\ mean_losses = <<>>

ScoreIdle ==
    /\ vid2pred = <<>> /\ vid2GTs = <<>> /\ sr_op = "idle" /\ sr_status = "ok"
    /\ scorer_calls = <<>> /\ final_scores = {} /\ save_dpath_exists = FALSE
    /\ makedirs_calls = 0 /\ fout = [opened |-> FALSE, lines |-> <<>>]

SentIdle ==
    /\ its_pc = "idle" /\ idxs = <<>> /\ sentence = <<>>

CfgIdle ==
    /\ cfg_pc = "idle" /\ config = <<>> /\ config_dict = <<>>
    /\ config_restored = <<>>

PredIdle ==
    /\ py_major = 3 /\ dict_order = "insertion" /\ data_iter = <<>>
    /\ gp_pc = "idle" /\ gp_batch = 0 /\ onlyonce_dataset = <<>>
    /\ gp_vids = <<>> /\ gp_feats = <<>> /\ onlyonce_iter = <<>>
    /\ gp_chunk = 0 /\ describe_calls = <<>> /\ gp_vid2pred = <<>>
    /\ gp_beam_width = 1 /\ gp_beam_alpha = 0 /\ describe_kwargs = <<>>

EvalIdle ==
    /\ ev_pc = "idle" /\ ev_given = [beam_width |-> FALSE, beam_alpha |-> FALSE]
    /\ ev_beam_width = 1 /\ ev_beam_alpha = 0

---------------------------------------------------------------------------
\* Bounds of the model.
MaxCaptionLen == 2
MaxBatch == 2
MaxWidth == 4
MaxAlpha == 1
MaxWeight == 2
MaxFeat == 1
NVocabs == 3
HiddenStates == 5
LogProbLevels == 4
DrawLevels == 2
MaxCaptionSeed == 2
MaxNumLosses == 3
MaxUpdates == 4
MaxLossVal == 2
MaxLast == 5
MaxVids == 3
MaxIdxsLen == 5
MaxConfigVal == 1
MaxNesting == 2
MaxLoaderBatch == 64
MaxRepeats == 3

\* vocab.word2idx of the reserved tokens.
SOS_idx == 0
EOS_idx == 1
PAD_idx == 2

Tokens == 0 .. (NVocabs - 1)
SortTies == {"first", "last"}

Min(a, b) == IF a < b THEN a ELSE b

RECURSIVE Pow(_, _)
Pow(x, n) == IF n = 0 THEN 1 ELSE x * Pow(x, n - 1)

---------------------------------------------------------------------------
\* Decoder (models.py).  The recurrent state is abstracted to one of
\* HiddenStates values; the zero tensor is 0.

ZeroHidden == 0

\* get_rnn_init_hidden: a zero state for every batch element.
get_rnn_init_hidden(B) == [b \in 1 .. B |-> ZeroHidden]

\* The recurrent cell: the new state is a function of the embedded input
\* token, the attended features and the previous state.
RnnCell(w, input, hidden, feat) ==
    (2 * hidden + input + feat + w + 1) % HiddenStates

\* self.out followed by log_softmax: a strictly negative score per token,
\* a function of the new recurrent output only.
LogSoftmaxOut(w, h) ==
    [v \in Tokens |-> 0 - (1 + (((h + 1) * (v + w + 1) + v * v) % LogProbLevels))]

\* Decoder.forward for one batch element.
Decoder(w, input, hidden, feat) ==
    LET h2 == RnnCell(w, input, hidden, feat)
    IN  [output |-> LogSoftmaxOut(w, h2), hidden |-> h2]

\* The maximal value of a score row and the indices attaining it.
RowMax(row) == CHOOSE m \in {row[v] : v \in DOMAIN row} : \A v \in DOMAIN row : row[v] <= m
ArgMaxSet(row) == {v \in DOMAIN row : row[v] = RowMax(row)}

---------------------------------------------------------------------------
\* CaptionGenerator.beam_search (models.py 140-221)

HasEOS(caption) == \E j \in 1 .. Len(caption) : caption[j] = EOS_idx

\* line 165: 0. for a path that already holds <EOS>, 1. otherwise.
EOSMaskAlwaysOne(caption) == 1
EOS_mask(caption) == IF HasEOS(caption) THEN 0 ELSE 1

\* list.index(EOS_idx), 0-based.
IndexOfEOS(caption) ==
    (CHOOSE j \in 1 .. Len(caption) :
        caption[j] = EOS_idx /\ \A i \in 1 .. (j - 1) : caption[i] # EOS_idx) - 1

\* line 173
caption_lens(caption, step) ==
    IF HasEOS(caption) THEN IndexOfEOS(caption) + 1 ELSE step + 1

\* lines 175-177: output / (((5 + len) ** alpha) / (6 ** alpha)), exactly.
normalized_output(score, len, a) ==
    [num |-> score * Pow(6, a), den |-> Pow(5 + len, a)]

\* a > b for two fractions with positive denominators.
FracGreater(a, b) == a.num * b.den > b.num * a.den
FracEqual(a, b) == a.num * b.den = b.num * a.den

\* argsort(dim=1, descending=True): f is placed before g.
AscendingBefore(row, f, g, tie) ==
    \/ FracGreater(row[g], row[f])
    \/ FracEqual(row[f], row[g]) /\ (IF tie = "first" THEN f < g ELSE f > g)
DescendingBefore(row, f, g, tie) ==
    \/ FracGreater(row[f], row[g])
    \/ FracEqual(row[f], row[g]) /\ (IF tie = "first" THEN f < g ELSE f > g)

RECURSIVE ArgsortRec(_, _, _)
ArgsortRec(row, remaining, tie) ==
    IF remaining = {} THEN <<>>
    ELSE LET best == CHOOSE f \in remaining :
                        \A g \in remaining \ {f} : DescendingBefore(row, f, g, tie)
         IN  <<best>> \o ArgsortRec(row, remaining \ {best}, tie)

argsort(row, tie) == ArgsortRec(row, DOMAIN row, tie)

\* line 205: the carried cumulative log-probability of a selected candidate.
topk_cum_prob(b, bi, oi) == beam_output_list[b][NVocabs * bi + oi]

\* lines 141-150
BeamStart(B, L, w, a) ==
    /\ bs_pc = "decode"
    /\ batch_size = B /\ max_caption_len = L /\ width = w /\ alpha = a
    /\ t = 0
    /\ input_list = << [b \in 1 .. B |-> SOS_idx] >>
    /\ hidden_list = << get_rnn_init_hidden(B) >>
    /\ cum_prob_list = << [b \in 1 .. B |-> 0] >>
    /\ output_list = [b \in 1 .. B |-> << <<>> >>]
    /\ raw_output_list = <<>>
    /\ beam_output_list = <<>>
    /\ normalized_beam_output_list = <<>>
    /\ beam_hidden_list = <<>>
    /\ beam_topk_output_index_list = <<>>
    /\ outputs = <<>>

\* lines 152-185: one decoder call per beam slot, masking, accumulation and
\* length normalisation, concatenated along the vocabulary axis.
BeamDecode ==
    /\ bs_pc = "decode"
    /\ LET n == Len(input_list)
           B == batch_size
           dec == [i \in 1 .. n |-> [b \in 1 .. B |->
                      Decoder(weights, input_list[i][b], hidden_list[i][b], feats[b])]]
           out(i, b, v) ==
               EOS_mask(output_list[b][i]) * dec[i][b].output[v] + cum_prob_list[i][b]
       IN  /\ raw_output_list' = [i \in 1 .. n |-> [b \in 1 .. B |-> dec[i][b].output]]
           /\ beam_hidden_list' = [i \in 1 .. n |-> [b \in 1 .. B |-> dec[i][b].hidden]]
           /\ beam_output_list' =
                 [b \in 1 .. B |-> [f \in 0 .. (n * NVocabs - 1) |->
                     out((f \div NVocabs) + 1, b, f % NVocabs)]]
           /\ normalized_beam_output_list' =
                 [b \in 1 .. B |-> [f \in 0 .. (n * NVocabs - 1) |->
                     normalized_output(
                         out((f \div NVocabs) + 1, b, f % NVocabs),
                         caption_lens(output_list[b][(f \div NVocabs) + 1], t),
                         alpha)]]
           /\ dec_calls' = dec_calls + n
    /\ bs_pc' = "select"
    /\ UNCHANGED <<weights, feats, batch_size, max_caption_len, sort_tie>>
    /\ UNCHANGED <<width, alpha, t, input_list, hidden_list, cum_prob_list,
                   output_list, beam_topk_output_index_list, outputs>>
    /\ BeamFrame

\* line 186: the top-`width` flat candidate indices per batch element
\* (fewer when there are fewer candidates).
BeamTopK ==
    /\ bs_pc = "select"
    /\ beam_topk_output_index_list' =
          [b \in 1 .. batch_size |->
              SubSeq(argsort(normalized_beam_output_list[b], sort_tie), 1,
                     Min(width, Len(input_list) * NVocabs))]
    /\ bs_pc' = "reassemble"
    /\ UNCHANGED model_vars
    /\ UNCHANGED <<width, alpha, t, input_list, hidden_list, cum_prob_list,
                   output_list, raw_output_list, beam_output_list,
                   normalized_beam_output_list, beam_hidden_list, outputs>>
    /\ BeamFrame

\* lines 187-188: source beam and token of a selected flat index.
topk_beam_index(b, k) == beam_topk_output_index_list[b][k] \div NVocabs
topk_output_index(b, k) == beam_topk_output_index_list[b][k] % NVocabs

\* lines 190-217 (and 219-221 after the last step): reassembly of the beam
\* slots from the selected candidates.
BeamReassemble ==
    /\ bs_pc = "reassemble"
    /\ LET B == batch_size
           ncols == Len(beam_topk_output_index_list[1])
       IN  IF width > ncols
           THEN \* line 190: topk_output_index[:, i] with i past the last column
                /\ bs_pc' = "IndexError"
                /\ UNCHANGED <<t, input_list, hidden_list, cum_prob_list,
                               output_list, outputs>>
           ELSE /\ input_list' =
                      [k \in 1 .. width |-> [b \in 1 .. B |-> topk_output_index(b, k)]]
                /\ hidden_list' =
                      [k \in 1 .. width |-> [b \in 1 .. B |->
                          beam_hidden_list[topk_beam_index(b, k) + 1][b]]]
                /\ cum_prob_list' =
                      [k \in 1 .. width |-> [b \in 1 .. B |->
                          topk_cum_prob(b, topk_beam_index(b, k), topk_output_index(b, k))]]
                /\ output_list' =
                      [b \in 1 .. B |-> [k \in 1 .. width |->
                          Append(output_list[b][topk_beam_index(b, k) + 1],
                                 topk_output_index(b, k))]]
                /\ t' = t + 1
                /\ IF t = max_caption_len
                   THEN /\ bs_pc' = "done"
                        /\ outputs' = [b \in 1 .. B |-> <<SOS_idx>> \o output_list'[b][1]]
                   ELSE /\ bs_pc' = "decode"
                        /\ UNCHANGED outputs
    /\ UNCHANGED model_vars
    /\ UNCHANGED <<width, alpha, raw_output_list, beam_output_list,
                   normalized_beam_output_list, beam_hidden_list,
                   beam_topk_output_index_list>>
    /\ BeamFrame

---------------------------------------------------------------------------
\* CaptionGenerator.forward / forward_decoder (models.py 111-131)

\* line 112: torch.zeros row of the output buffer.
ZeroRow == [v \in Tokens |-> 0]

\* line 115: range(1, self.max_caption_len + 2)
ForwardRangeFromZero(L) == 0 .. (L + 1)
forward_range(L) == 1 .. (L + 1)

\* line 118: random.random() < teacher_forcing_ratio
IsTeacherLeq(draw, ratio) == draw <= ratio
is_teacher(draw, ratio) == draw < ratio

\* line 119: output.data.max(1)[1], the index of a maximal entry.
top1(row, tie) ==
    LET best == ArgMaxSet(row)
    IN  IF tie = "first" THEN CHOOSE v \in best : \A u \in best : v <= u
        ELSE CHOOSE v \in best : \A u \in best : v >= u

\* A ground-truth caption tensor, time-major, max_caption_len + 2 rows.
CaptionTensor(c, B, L) ==
    [ti \in 0 .. (L + 1) |-> [b \in 1 .. B |->
        IF ti = 0 THEN SOS_idx ELSE (c + ti * b) % NVocabs]]
NoCaptions == [given |-> FALSE, data |-> <<>>]

\* line 123: forward(self, feats, captions=None, teacher_forcing_ratio=0.)
DefaultTeacherForcingRatio == 0

\* lines 112-114 and 124-128
FwdStart(B, L) ==
    /\ fw_pc = "loop"
    /\ batch_size = B /\ max_caption_len = L
    /\ fw_t = CHOOSE i \in forward_range(L) : \A j \in forward_range(L) : i <= j
    /\ fw_outputs = [ti \in 0 .. (L + 1) |-> [b \in 1 .. B |-> ZeroRow]]
    /\ fw_output = [b \in 1 .. B |-> SOS_idx]
    /\ fw_hidden = get_rnn_init_hidden(B)
    /\ fw_draw = 0
    /\ captions_reads = 0
    /\ fw_writes = <<>>

\* lines 115-121: one iteration of the rollout loop.
FwdStep ==
    /\ fw_pc = "loop"
    /\ \E draw \in 0 .. (DrawLevels - 1) :
          LET B == batch_size
              dec == [b \in 1 .. B |->
                         Decoder(weights, fw_output[b], fw_hidden[b], feats[b])]
              teacher == is_teacher(draw, teacher_forcing_ratio)
          IN  /\ fw_outputs' = [fw_outputs EXCEPT ![fw_t] = [b \in 1 .. B |-> dec[b].output]]
              /\ fw_writes' = Append(fw_writes, fw_t)
              /\ fw_hidden' = [b \in 1 .. B |-> dec[b].hidden]
              /\ dec_calls' = dec_calls + 1
              /\ fw_draw' = draw
              /\ IF teacher /\ ~captions.given
                 THEN \* captions is None: captions.data fails
                      /\ fw_pc' = "AttributeError"
                      /\ UNCHANGED <<fw_output, fw_t, captions_reads>>
                 ELSE /\ fw_output' =
                            IF teacher THEN captions.data[fw_t]
                            ELSE [b \in 1 .. B |-> top1(dec[b].output, sort_tie)]
                      /\ captions_reads' = captions_reads + (IF teacher THEN 1 ELSE 0)
                      /\ fw_t' = fw_t + 1
                      /\ fw_pc' = IF fw_t + 1 \in forward_range(max_caption_len)
                                  THEN "loop" ELSE "done"
    /\ UNCHANGED <<weights, feats, batch_size, max_caption_len, sort_tie>>
    /\ UNCHANGED <<captions, teacher_forcing_ratio, fw_caller>>
    /\ FwdFrame

---------------------------------------------------------------------------
\* LossChecker (utils.py 14-31).  Loss values are floats; they are modelled
\* as integers and a quotient as the exact fraction in lowest terms.

Max(a, b) == IF a > b THEN a ELSE b

RECURSIVE GCD(_, _)
GCD(a, b) == IF b = 0 THEN a ELSE GCD(b, a % b)

\* sum(_loss) / len(_loss) for a non-empty list.
Quotient(n, d) == [num |-> n \div GCD(n, d), den |-> d \div GCD(n, d)]

RECURSIVE sum(_)
sum(seq) == IF seq = <<>> THEN 0 ELSE seq[1] + sum(Tail(seq))

\* Python's seq[start:] for any integer start.
SliceHead(seq, start) == SubSeq(seq, 1, Min(0 - start, Len(seq)))
PySliceFrom(seq, start) ==
    LET from == IF start < 0 THEN Max(Len(seq) + start, 0) ELSE Min(start, Len(seq))
    IN  SubSeq(seq, from + 1, Len(seq))

\* __init__ (lines 15-18)
LossInit(n) ==
    /\ num_losses = n
    /\ losses = [i \in 1 .. n |-> <<>>]
    /\ lc_op = "none" /\ lc_status = "ok" /\ lc_last = 0 /\ mean_losses = <<>>

\* The values of one update call: one per component, distinct by component.
LossVals(n) == {[i \in 1 .. n |-> v * i + (i - 1)] : v \in 0 .. MaxLossVal}

\* update (lines 20-24)
LossUpdate ==
    /\ lc_op # "idle"
    /\ \E n \in {num_losses, num_losses + 1} : \E loss_vals \in LossVals(n) :
          /\ lc_op' = "update"
          /\ mean_losses' = <<>>
          /\ IF Len(loss_vals) # num_losses
             THEN /\ lc_status' = "AssertionError"
                  /\ UNCHANGED losses
             ELSE /\ Len(losses[1]) < MaxUpdates
                  /\ lc_status' = "ok"
                  /\ losses' = [i \in 1 .. num_losses |-> Append(losses[i], loss_vals[i])]
    /\ UNCHANGED <<num_losses, lc_last>>
    /\ LossFrame

\* mean (lines 26-31)
LossMean ==
    /\ lc_op # "idle"
    /\ \E last \in 0 .. MaxLast :
          LET _loss(i) == PySliceFrom(losses[i], 0 - last)
          IN  /\ lc_op' = "mean"
              /\ lc_last' = last
              /\ IF \E i \in 1 .. num_losses : Len(_loss(i)) = 0
                 THEN /\ lc_status' = "ZeroDivisionError"
                      /\ mean_losses' = <<>>
                 ELSE /\ lc_status' = "ok"
                      /\ mean_losses' =
                            [i \in 1 .. num_losses |-> Quotient(sum(_loss(i)), Len(_loss(i)))]
    /\ UNCHANGED <<num_losses, losses>>
    /\ LossFrame

InitLoss ==
    /\ \E n \in 1 .. MaxNumLosses : LossInit(n)
    /\ ModelIdle
    /\ BeamIdle /\ FwdIdle /\ ScoreIdle /\ SentIdle /\ CfgIdle /\ PredIdle /\ EvalIdle

NextLoss == LossUpdate \/ LossMean

SpecLoss == InitLoss /\ [][NextLoss]_vars

---------------------------------------------------------------------------
\* score, calc_scores and save_result (utils.py 150-179, 255-268)

Range(seq) == {seq[i] : i \in 1 .. Len(seq)}

\* dict.keys() of the two maps.
PredKeys(pred) == {pred[i].vid : i \in 1 .. Len(pred)}
GTKeys(gts) == DOMAIN gts

\* lines 151 and 256: set(vid2pred.keys()) == set(vid2GTs.keys())
KeysSubset(pred, gts) == PredKeys(pred) \subseteq GTKeys(gts)
same_keys(pred, gts) == PredKeys(pred) = GTKeys(gts)

\* line 152: vid2idx = { v: i for i, v in enumerate(vid2pred.keys()) }
vid2idx(pred) == [v \in PredKeys(pred) |-> (CHOOSE i \in 1 .. Len(pred) : pred[i].vid = v) - 1]

\* vid2pred[vid]
PredOf(pred, v) == pred[CHOOSE i \in 1 .. Len(pred) : pred[i].vid = v].pred

\* lines 167-179: one Bleu(4) scorer, four metric names.
BleuMethods == {"Bleu_1", "Bleu_2", "Bleu_3", "Bleu_4"}

\* lines 265-267: ', '.join([ str(vid), pred, ' / '.join(GTs) ])
RECURSIVE join(_, _)
join(sep, words) ==
    IF words = <<>> THEN <<>>
    ELSE IF Len(words) = 1 THEN <<words[1]>>
    ELSE <<words[1], sep>> \o join(sep, Tail(words))

result_line(v, pred, GTs) == <<v, ", ", pred, ", ">> \o join(" / ", GTs)

\* A prediction per video and up to two references per video.
SentenceOf(kind, v) == <<kind, v>>
RefsOf(v) == [j \in 1 .. (1 + (v % 2)) |-> SentenceOf("ref", v * 10 + j)]

RECURSIVE OrderedSubsets(_)
OrderedSubsets(S) ==
    {<<>>} \cup UNION {{<<v>> \o rest : rest \in OrderedSubsets(S \ {v})} : v \in S}

\* score (lines 150-157) with calc_scores (lines 161-179)
Score ==
    /\ sr_op = "none"
    /\ sr_op' = "score"
    /\ IF ~same_keys(vid2pred, vid2GTs)
       THEN /\ sr_status' = "AssertionError"
            /\ UNCHANGED <<scorer_calls, final_scores>>
       ELSE IF ~(GTKeys(vid2GTs) \subseteq PredKeys(vid2pred))
       THEN \* line 153: vid2idx[vid] of a video without a prediction
            /\ sr_status' = "KeyError"
            /\ UNCHANGED <<scorer_calls, final_scores>>
       ELSE LET idx == vid2idx(vid2pred)
                refs == {[id |-> idx[v], sents |-> vid2GTs[v]] : v \in GTKeys(vid2GTs)}
                hypos == {[id |-> idx[v], sents |-> <<PredOf(vid2pred, v)>>] :
                             v \in PredKeys(vid2pred)}
            IN  /\ sr_status' = "ok"
                /\ scorer_calls' = Append(scorer_calls, [ref |-> refs, hypo |-> hypos])
                /\ final_scores' = BleuMethods
    /\ UNCHANGED <<vid2pred, vid2GTs, save_dpath_exists, makedirs_calls, fout>>
    /\ ScoreFrame

\* Number of leading videos of vid2pred that have references.
RECURSIVE WritablePrefix(_, _)
WritablePrefix(pred, gts) ==
    IF pred = <<>> \/ pred[1].vid \notin GTKeys(gts) THEN 0
    ELSE 1 + WritablePrefix(Tail(pred), gts)

\* save_result (lines 255-268)
SaveResult ==
    /\ sr_op = "none"
    /\ sr_op' = "save_result"
    /\ IF ~same_keys(vid2pred, vid2GTs)
       THEN /\ sr_status' = "AssertionError"
            /\ UNCHANGED <<save_dpath_exists, makedirs_calls, fout>>
       ELSE LET n == WritablePrefix(vid2pred, vid2GTs)
            IN  /\ makedirs_calls' = makedirs_calls + (IF save_dpath_exists THEN 0 ELSE 1)
                /\ save_dpath_exists' = TRUE
                /\ fout' = [opened |-> TRUE,
                            lines |-> [i \in 1 .. n |->
                                result_line(vid2pred[i].vid, vid2pred[i].pred,
                                            vid2GTs[vid2pred[i].vid])]]
                \* line 265: vid2GTs[vid] of a video without references
                /\ sr_status' = IF n < Len(vid2pred) THEN "KeyError" ELSE "ok"
    /\ UNCHANGED <<vid2pred, vid2GTs, scorer_calls, final_scores>>
    /\ ScoreFrame

InitScore ==
    /\ \E order \in OrderedSubsets(1 .. MaxVids) :
          vid2pred = [i \in 1 .. Len(order) |->
                         [vid |-> order[i], pred |-> SentenceOf("pred", order[i])]]
    /\ \E K \in SUBSET (1 .. MaxVids) : vid2GTs = [v \in K |-> RefsOf(v)]
    /\ save_dpath_exists \in BOOLEAN
    /\ sr_op = "none" /\ sr_status = "ok"
    /\ scorer_calls = <<>> /\ final_scores = {}
    /\ makedirs_calls = 0 /\ fout = [opened |-> FALSE, lines |-> <<>>]
    /\ ModelIdle /\ BeamIdle /\ FwdIdle /\ LossIdle /\ SentIdle /\ CfgIdle /\ PredIdle /\ EvalIdle

NextScore == Score \/ SaveResult

SpecScore == InitScore /\ [][NextScore]_vars

---------------------------------------------------------------------------
\* idxs_to_sentence (utils.py 195-204)

\* vocab.idx2word: the word of an index.
idx2word(idx) == [word |-> idx]

\* lines 196-202: the loop over idxs[1:], leaving at the first EOS_idx.
RECURSIVE WordsSkippingEOS(_, _)
WordsSkippingEOS(seq, eos) ==
    IF seq = <<>> THEN <<>>
    ELSE IF seq[1] = eos THEN WordsSkippingEOS(Tail(seq), eos)
    ELSE <<idx2word(seq[1])>> \o WordsSkippingEOS(Tail(seq), eos)

RECURSIVE words_until_EOS(_, _)
words_until_EOS(seq, eos) ==
    IF seq = <<>> THEN <<>>
    ELSE IF seq[1] = eos THEN <<>>
    ELSE <<idx2word(seq[1])>> \o words_until_EOS(Tail(seq), eos)

idxs_to_sentence(seq, eos) ==
    join(" ", words_until_EOS(SubSeq(seq, 2, Len(seq)), eos))

IdxsToSentence ==
    /\ its_pc = "call"
    /\ sentence' = idxs_to_sentence(idxs, EOS_idx)
    /\ its_pc' = "returned"
    /\ UNCHANGED idxs
    /\ SentFrame

InitSent ==
    /\ its_pc = "call"
    /\ \E n \in 0 .. MaxIdxsLen : idxs \in [1 .. n -> Tokens]
    /\ sentence = <<>>
    /\ ModelIdle /\ BeamIdle /\ FwdIdle /\ LossIdle /\ ScoreIdle /\ CfgIdle /\ PredIdle /\ EvalIdle

NextSent == IdxsToSentence

SpecSent == InitSent /\ [][NextSent]_vars

---------------------------------------------------------------------------
\* cls_to_dict, Struct and dict_to_cls (utils.py 207-234).  A value is
\* [kind, val, attrs]: an int, a bool, a class, a dict or a Struct object;
\* attrs maps the attribute names (keys) of the last three to values.

IntValue(n) == [kind |-> "int", val |-> n, attrs |-> <<>>]
TrueValue == [kind |-> "bool", val |-> 1, attrs |-> <<>>]
ClassValue(f) == [kind |-> "class", val |-> 0, attrs |-> f]
DictValue(f) == [kind |-> "dict", val |-> 0, attrs |-> f]
StructValue(f) == [kind |-> "struct", val |-> 0, attrs |-> f]

\* The names dir() lists that start with "__".
DunderNames == {"__doc__"}
\* lines 209 and 228: [ p for p in properties if not p.startswith("__") ]
public(names) == names \ DunderNames

\* line 213: inspect.isclass(v)
isclass(v) == v.kind = "class"

\* line 215: v['was_class'] = True
set_was_class(d) ==
    DictValue([p \in DOMAIN d.attrs \cup {"was_class"} |->
                  IF p = "was_class" THEN TrueValue ELSE d.attrs[p]])

RECURSIVE cls_to_dict(_)
cls_to_dict(cls) ==
    DictValue([p \in public(DOMAIN cls.attrs) |->
                  IF isclass(cls.attrs[p])
                  THEN set_was_class(cls_to_dict(cls.attrs[p]))
                  ELSE cls.attrs[p]])

\* line 231: isinstance(v, dict) and 'was_class' in v and v['was_class']
was_class(v) ==
    v.kind = "dict" /\ "was_class" \in DOMAIN v.attrs /\ v.attrs["was_class"].val # 0

\* lines 225-234: Struct(**d), then every marked dict rebuilt in place.
RECURSIVE dict_to_cls(_)
dict_to_cls(d) ==
    StructValue([p \in DOMAIN d.attrs |->
                    IF p \in public(DOMAIN d.attrs) /\ was_class(d.attrs[p])
                    THEN dict_to_cls(d.attrs[p])
                    ELSE d.attrs[p]])

\* Configuration classes: an optional int attribute, an optional docstring,
\* and an optional attribute that is an int or a nested class.
RECURSIVE ConfigClasses(_)
ConfigClasses(depth) ==
    LET ints == {IntValue(n) : n \in 1 .. MaxConfigVal}
        flat == UNION {[S -> ints] : S \in SUBSET {"lr", "__doc__"}}
        subs == IF depth = 0 THEN {} ELSE ints \cup ConfigClasses(depth - 1)
    IN  {ClassValue(f) : f \in flat} \cup
        {ClassValue([p \in DOMAIN f \cup {"decoder"} |->
                        IF p = "decoder" THEN sub ELSE f[p]]) :
            f \in flat, sub \in subs}

\* save_checkpoint line 251: 'config': cls_to_dict(config)
ClsToDict ==
    /\ cfg_pc = "config"
    /\ config_dict' = cls_to_dict(config)
    /\ cfg_pc' = "saved"
    /\ UNCHANGED <<config, config_restored>>
    /\ CfgFrame

\* dict_to_cls on the checkpoint's 'config'
DictToCls ==
    /\ cfg_pc = "saved"
    /\ config_restored' = dict_to_cls(config_dict)
    /\ cfg_pc' = "restored"
    /\ UNCHANGED <<config, config_dict>>
    /\ CfgFrame

InitCfg ==
    /\ cfg_pc = "config"
    /\ config \in ConfigClasses(MaxNesting)
    /\ config_dict = <<>> /\ config_restored = <<>>
    /\ ModelIdle /\ BeamIdle /\ FwdIdle /\ LossIdle /\ ScoreIdle /\ SentIdle /\ PredIdle /\ EvalIdle

NextCfg == ClsToDict \/ DictToCls

SpecCfg == InitCfg /\ [][NextCfg]_vars

---------------------------------------------------------------------------
\* get_predicted_captions (utils.py 105-133)

\* line 116
onlyonce_batch_size == 100

\* Python 2 lists a dict in an arbitrary order, the same for keys() and
\* values(); Python 3.7 and later in insertion order.
Reverse(seq) == [i \in 1 .. Len(seq) |-> seq[Len(seq) + 1 - i]]
InDictOrder(seq, order) == IF order = "insertion" THEN seq ELSE Reverse(seq)

\* lines 110-112: the first-seen feature tensor per video id.
add_first_seen(dataset, vids, fts) ==
    LET keys == {dataset[i].vid : i \in 1 .. Len(dataset)}
        is_new(j) == /\ vids[j] \notin keys
                     /\ \A i \in 1 .. (j - 1) : vids[i] # vids[j]
        added == SelectSeq([j \in 1 .. Len(vids) |-> j], is_new)
    IN  dataset \o [k \in 1 .. Len(added) |->
                       [vid |-> vids[added[k]], feat |-> fts[added[k]]]]

\* lines 108-112, one batch of the iterator
ScanBatch ==
    /\ gp_pc = "scan"
    /\ gp_batch < Len(data_iter)
    /\ gp_batch' = gp_batch + 1
    /\ onlyonce_dataset' =
          add_first_seen(onlyonce_dataset, data_iter[gp_batch + 1].vids,
                         data_iter[gp_batch + 1].feats)
    /\ UNCHANGED <<py_major, dict_order, data_iter, gp_beam_width, gp_beam_alpha,
                   gp_pc, gp_vids, gp_feats,
                   onlyonce_iter, gp_chunk, describe_calls, describe_kwargs, gp_vid2pred>>
    /\ PredFrame

\* lines 113-116: keys() and values() of the de-duplicated dataset
TakeKeysAndValues ==
    /\ gp_pc = "scan"
    /\ gp_batch = Len(data_iter)
    /\ gp_vids' = InDictOrder([i \in 1 .. Len(onlyonce_dataset) |-> onlyonce_dataset[i].vid],
                              dict_order)
    /\ gp_feats' = InDictOrder([i \in 1 .. Len(onlyonce_dataset) |-> onlyonce_dataset[i].feat],
                               dict_order)
    /\ gp_pc' = "chunk"
    /\ UNCHANGED <<py_major, dict_order, data_iter, gp_beam_width, gp_beam_alpha,
                   gp_batch, onlyonce_dataset,
                   onlyonce_iter, gp_chunk, describe_calls, describe_kwargs, gp_vid2pred>>
    /\ PredFrame

\* lines 117-121: one test of the while loop and, if it holds, its body.
\* On Python 3 keys() is a view, and vids[:batch_size] raises TypeError.
ChunkStep ==
    /\ gp_pc = "chunk"
    /\ IF Len(gp_vids) = 0
       THEN /\ gp_pc' = "describe"
            /\ UNCHANGED <<gp_vids, gp_feats, onlyonce_iter>>
       ELSE IF py_major >= 3
       THEN /\ gp_pc' = "TypeError"
            /\ UNCHANGED <<gp_vids, gp_feats, onlyonce_iter>>
       ELSE LET n == Min(onlyonce_batch_size, Len(gp_vids))
            IN  /\ onlyonce_iter' =
                      Append(onlyonce_iter, [vids |-> SubSeq(gp_vids, 1, n),
                                             feats |-> SubSeq(gp_feats, 1, n)])
                /\ gp_vids' = SubSeq(gp_vids, n + 1, Len(gp_vids))
                /\ gp_feats' = SubSeq(gp_feats, n + 1, Len(gp_feats))
                /\ UNCHANGED gp_pc
    /\ UNCHANGED <<py_major, dict_order, data_iter, gp_beam_width, gp_beam_alpha,
                   gp_batch, onlyonce_dataset,
                   gp_chunk, describe_calls, describe_kwargs, gp_vid2pred>>
    /\ PredFrame

\* model.describe on one video: the caption decoded from its features
\* (batch elements are decoded independently of each other).
describe(feat, beam_width, beam_alpha) ==
    <<SOS_idx, (feat + beam_width + beam_alpha) % NVocabs, EOS_idx, feat % NVocabs>>

\* lines 129-132, one chunk
DescribeChunk ==
    /\ gp_pc = "describe"
    /\ gp_chunk < Len(onlyonce_iter)
    /\ LET chunk == onlyonce_iter[gp_chunk + 1]
           sentences == [i \in 1 .. Len(chunk.feats) |->
                            idxs_to_sentence(describe(chunk.feats[i], gp_beam_width,
                                                      gp_beam_alpha), EOS_idx)]
           updated == {chunk.vids[i] : i \in 1 .. Len(chunk.vids)}
       IN  /\ describe_calls' = Append(describe_calls, chunk.feats)
           /\ describe_kwargs' = Append(describe_kwargs, [beam_width |-> gp_beam_width,
                                                          beam_alpha |-> gp_beam_alpha])
           /\ gp_vid2pred' =
                 [v \in DOMAIN gp_vid2pred \cup updated |->
                     IF v \in updated
                     THEN sentences[CHOOSE i \in 1 .. Len(chunk.vids) : chunk.vids[i] = v]
                     ELSE gp_vid2pred[v]]
    /\ gp_chunk' = gp_chunk + 1
    /\ UNCHANGED <<py_major, dict_order, data_iter, gp_beam_width, gp_beam_alpha,
                   gp_pc, gp_batch, onlyonce_dataset,
                   gp_vids, gp_feats, onlyonce_iter>>
    /\ PredFrame

\* line 133
ReturnVid2Pred ==
    /\ gp_pc = "describe"
    /\ gp_chunk = Len(onlyonce_iter)
    /\ gp_pc' = "done"
    /\ UNCHANGED <<py_major, dict_order, data_iter, gp_beam_width, gp_beam_alpha,
                   gp_batch, onlyonce_dataset,
                   gp_vids, gp_feats, onlyonce_iter, gp_chunk, describe_calls, describe_kwargs,
                   gp_vid2pred>>
    /\ PredFrame

\* A batch iterator over n distinct videos: every video occurs `dup` times
\* in a row, then the first videos occur once more; occurrence i carries
\* feature tensor i.
\* line 105: the defaults of beam_width and beam_alpha
gp_default_beam_width == 5
gp_default_beam_alpha == 0

\* The reference caption of occurrence i, as an index sequence.
GroundTruthCaption(i) == <<SOS_idx, i % NVocabs, (i \div NVocabs) % NVocabs, EOS_idx>>

OccurrenceVid(i, n, dup) == (((i - 1) \div dup) % n) + 1
DataIter(n, dup, bs) ==
    LET m == IF n = 0 THEN 0 ELSE n * dup + Min(n, MaxRepeats)
        nb == (m + bs - 1) \div bs
    IN  [k \in 1 .. nb |->
            LET lo == (k - 1) * bs + 1
                hi == Min(k * bs, m)
            IN  [vids |-> [j \in 1 .. (hi - lo + 1) |-> OccurrenceVid(lo + j - 1, n, dup)],
                 feats |-> [j \in 1 .. (hi - lo + 1) |-> lo + j - 1],
                 captions |-> [j \in 1 .. (hi - lo + 1) |-> GroundTruthCaption(lo + j - 1)]]]

\* Numbers of distinct videos around the chunk size.
VideoCounts ==
    {0, 1, 2, onlyonce_batch_size - 1, onlyonce_batch_size, onlyonce_batch_size + 1,
     2 * onlyonce_batch_size + 1}

InitPred ==
    /\ py_major \in {2, 3}
    /\ dict_order \in {"insertion", "arbitrary"}
    /\ py_major = 3 => dict_order = "insertion"
    /\ \E n \in VideoCounts, dup \in {1, 2}, bs \in {MaxLoaderBatch \div 2, MaxLoaderBatch} :
          data_iter = DataIter(n, dup, bs)
    /\ gp_pc = "scan" /\ gp_batch = 0 /\ onlyonce_dataset = <<>>
    /\ gp_vids = <<>> /\ gp_feats = <<>> /\ onlyonce_iter = <<>>
    /\ gp_chunk = 0 /\ describe_calls = <<>> /\ gp_vid2pred = <<>>
    /\ gp_beam_width \in {1, gp_default_beam_width}
    /\ gp_beam_alpha = gp_default_beam_alpha
    /\ describe_kwargs = <<>>
    /\ ModelIdle /\ BeamIdle /\ FwdIdle /\ LossIdle /\ ScoreIdle /\ SentIdle /\ CfgIdle /\ EvalIdle

NextPred == ScanBatch \/ TakeKeysAndValues \/ ChunkStep \/ DescribeChunk \/ ReturnVid2Pred

SpecPred == InitPred /\ [][NextPred]_vars

---------------------------------------------------------------------------
\* evaluate (utils.py 182-186) with get_groundtruth_captions (utils.py 136-147)

\* line 182: the defaults of beam_width and beam_alpha
evaluate_default_beam_width == 5
evaluate_default_beam_alpha == 0
\* line 183: the keyword arguments written in the call
evaluate_passed_beam_width == 5
evaluate_passed_beam_alpha == 0

RECURSIVE Flatten(_)
Flatten(seqs) == IF seqs = <<>> THEN <<>> ELSE seqs[1] \o Flatten(Tail(seqs))

\* lines 137-147: per video id, the sentences of its captions in the
\* order of occurrence.
get_groundtruth_captions(iter) ==
    LET vids == Flatten([k \in 1 .. Len(iter) |-> iter[k].vids])
        caps == Flatten([k \in 1 .. Len(iter) |-> iter[k].captions])
        occurrences(v) == SelectSeq([i \in 1 .. Len(vids) |-> i], LAMBDA i : vids[i] = v)
    IN  [v \in Range(vids) |->
            [j \in 1 .. Len(occurrences(v)) |->
                idxs_to_sentence(caps[occurrences(v)[j]], EOS_idx)]]

\* line 183: the call of get_predicted_captions
EvaluatePredict ==
    /\ ev_pc = "start"
    /\ ev_pc' = "predict"
    /\ gp_pc' = "scan"
    /\ gp_beam_width' = evaluate_passed_beam_width
    /\ gp_beam_alpha' = evaluate_passed_beam_alpha
    /\ UNCHANGED <<py_major, dict_order, data_iter, gp_batch, onlyonce_dataset,
                   gp_vids, gp_feats, onlyonce_iter, gp_chunk, describe_calls,
                   describe_kwargs, gp_vid2pred>>
    /\ UNCHANGED <<ev_given, ev_beam_width, ev_beam_alpha>>
    /\ UNCHANGED <<model_vars, beam_vars, fwd_vars, loss_vars, score_vars, sent_vars,
                   cfg_vars>>

\* line 184, and the arguments of the call of score at line 185
EvaluateGroundTruths ==
    /\ ev_pc = "predict"
    /\ gp_pc = "done"
    /\ ev_pc' = "score"
    /\ LET order == InDictOrder(Flatten([c \in 1 .. Len(onlyonce_iter) |->
                                            onlyonce_iter[c].vids]), dict_order)
       IN  vid2pred' = [i \in 1 .. Len(order) |->
                           [vid |-> order[i], pred |-> gp_vid2pred[order[i]]]]
    /\ vid2GTs' = get_groundtruth_captions(data_iter)
    /\ sr_op' = "none"
    /\ UNCHANGED <<sr_status, scorer_calls, final_scores, save_dpath_exists,
                   makedirs_calls, fout>>
    /\ UNCHANGED <<ev_given, ev_beam_width, ev_beam_alpha>>
    /\ UNCHANGED <<model_vars, beam_vars, fwd_vars, loss_vars, sent_vars, cfg_vars,
                   pred_vars>>

\* Numbers of distinct videos given to evaluate.
EvalVideoCounts == {0, 2, onlyonce_batch_size + 1}

\* A call of evaluate: each keyword argument passed or left to its default.
InitEval ==
    /\ ev_pc = "start"
    /\ ev_given \in [beam_width : BOOLEAN, beam_alpha : BOOLEAN]
    /\ IF ev_given.beam_width
       THEN ev_beam_width \in 1 .. (MaxWidth + 1)
       ELSE ev_beam_width = evaluate_default_beam_width
    /\ IF ev_given.beam_alpha
       THEN ev_beam_alpha \in 0 .. MaxAlpha
       ELSE ev_beam_alpha = evaluate_default_beam_alpha
    /\ py_major \in {2, 3}
    /\ dict_order \in {"insertion", "arbitrary"}
    /\ py_major = 3 => dict_order = "insertion"
    /\ \E n \in EvalVideoCounts : data_iter = DataIter(n, 2, MaxLoaderBatch)
    /\ gp_pc = "idle" /\ gp_batch = 0 /\ onlyonce_dataset = <<>>
    /\ gp_vids = <<>> /\ gp_feats = <<>> /\ onlyonce_iter = <<>>
    /\ gp_chunk = 0 /\ describe_calls = <<>> /\ gp_vid2pred = <<>>
    /\ gp_beam_width = 1 /\ gp_beam_alpha = 0 /\ describe_kwargs = <<>>
    /\ ModelIdle /\ BeamIdle /\ FwdIdle /\ LossIdle /\ ScoreIdle /\ SentIdle /\ CfgIdle

\* line 185 is the action Score.
NextEval == EvaluatePredict \/ NextPred \/ EvaluateGroundTruths \/ Score

SpecEval == InitEval /\ [][NextEval]_vars

---------------------------------------------------------------------------
\* The feature batches decoded: B videos, neighbours with different
\* features.
BatchFeats(B) == {[b \in 1 .. B |-> (s + b) % (MaxFeat + 1)] : s \in 0 .. MaxFeat}

\* describe(feats, beam_width, beam_alpha) on a model and a batch drawn from
\* bounded sets.
InitBeam ==
    /\ weights \in 0 .. MaxWeight
    /\ sort_tie \in SortTies
    /\ dec_calls = 0
    /\ \E B \in 1 .. MaxBatch, L \in 1 .. MaxCaptionLen,
          w \in 1 .. MaxWidth, a \in 0 .. MaxAlpha :
          /\ feats \in BatchFeats(B)
          /\ BeamStart(B, L, w, a)
    /\ FwdIdle /\ LossIdle /\ ScoreIdle /\ SentIdle /\ CfgIdle /\ PredIdle /\ EvalIdle

NextBeam == BeamDecode \/ BeamTopK \/ BeamReassemble

\* forward(feats, captions, teacher_forcing_ratio) on a model and a batch
\* drawn from bounded sets.
InitFwd ==
    /\ weights \in 0 .. MaxWeight
    /\ sort_tie \in SortTies
    /\ dec_calls = 0
    /\ fw_caller \in {"train", "test", "other"}
    /\ teacher_forcing_ratio \in 0 .. DrawLevels
    /\ \E B \in 1 .. MaxBatch, L \in 1 .. MaxCaptionLen :
          /\ feats \in BatchFeats(B)
          /\ captions \in {NoCaptions} \cup
                {[given |-> TRUE, data |-> CaptionTensor(c, B, L)] : c \in 0 .. MaxCaptionSeed}
          /\ FwdStart(B, L)
    \* utils.py 57: train passes its batch's captions and its ratio;
    \* utils.py 88: test passes captions and leaves the ratio at its default.
    /\ fw_caller = "train" => captions.given
    /\ fw_caller = "test" =>
          captions.given /\ teacher_forcing_ratio = DefaultTeacherForcingRatio
    /\ BeamIdle /\ LossIdle /\ ScoreIdle /\ SentIdle /\ CfgIdle /\ PredIdle /\ EvalIdle

NextFwd == FwdStep

SpecFwd == InitFwd /\ [][NextFwd]_vars

SpecBeam == InitBeam /\ [][NextBeam]_vars

---------------------------------------------------------------------------
\* Claims about beam_search.

BestPath(b) == output_list[b][1]
Front(s) == SubSeq(s, 1, Len(s) - 1)
Last(s) == s[Len(s)]
AfterSelect == bs_pc \in {"decode", "done"} /\ t >= 1

\* C1: describe / beam_search with max_caption_len = L never fails and
\* returns, for every batch element, a sequence of exactly L + 2 indices,
\* for any width >= 1 (also widths above the vocabulary size).
C1_BeamSearchReturnsLPlus2 ==
    /\ bs_pc # "IndexError"
    /\ bs_pc = "done" =>
          \A b \in 1 .. batch_size : Len(outputs[b]) = max_caption_len + 2

\* The same statement restricted to widths within the vocabulary size.
BeamSearchLengthWhenWidthFits ==
    width <= NVocabs =>
        /\ bs_pc # "IndexError"
        /\ bs_pc = "done" =>
              \A b \in 1 .. batch_size :
                  /\ Len(outputs[b]) = max_caption_len + 2
                  /\ outputs[b][1] = SOS_idx

\* C2 (as stated): with width = 1 the token appended at every step,
\* also after the path holds <EOS>, is an argmax of that step's decoder
\* output.
C2_GreedyAtEveryStep ==
    (width = 1 /\ AfterSelect) =>
        \A b \in 1 .. batch_size :
            Last(BestPath(b)) \in ArgMaxSet(raw_output_list[1][b])

\* C2 (amended): with width = 1 the token appended at every step at which
\* the path does not yet hold <EOS> is an argmax of that step's decoder
\* output.
C2_GreedyUntilEOS ==
    (width = 1 /\ AfterSelect) =>
        \A b \in 1 .. batch_size :
            ~HasEOS(Front(BestPath(b))) =>
                Last(BestPath(b)) \in ArgMaxSet(raw_output_list[1][b])

C2_Witness ==
    /\ width = 1 /\ bs_pc = "done" /\ max_caption_len >= 2
    /\ \E b \in 1 .. batch_size :
          /\ ~HasEOS(Front(BestPath(b)))
          /\ Last(BestPath(b)) \in ArgMaxSet(raw_output_list[1][b])
          /\ Cardinality(ArgMaxSet(raw_output_list[1][b])) = 1

\* C7: a finished beam does not keep accumulating probability: every
\* candidate extending a slot whose path holds <EOS> has the slot's carried
\* cumulative log-probability as its unnormalized score, and a selected
\* continuation of such a path carries that same value forward.
C7_FinishedBeamsKeepScore ==
    [][ (bs_pc = "select" \/ bs_pc = "reassemble") =>
          /\ \A b \in 1 .. batch_size : \A i \in 1 .. Len(input_list) :
                HasEOS(output_list[b][i]) =>
                    \A v \in Tokens :
                        beam_output_list[b][NVocabs * (i - 1) + v] = cum_prob_list[i][b]
          /\ bs_pc' \in {"decode", "done"} =>
                \A b \in 1 .. batch_size : \A k \in 1 .. width :
                    HasEOS(Front(output_list'[b][k])) =>
                        \E i \in 1 .. Len(input_list) :
                            /\ output_list[b][i] = Front(output_list'[b][k])
                            /\ cum_prob_list'[k][b] = cum_prob_list[i][b]
      ]_vars

C7_Witness ==
    /\ AfterSelect
    /\ \E b \in 1 .. batch_size : \E k \in 1 .. Len(input_list) :
          /\ HasEOS(Front(output_list[b][k]))
          /\ cum_prob_list[k][b] < 0

---------------------------------------------------------------------------
\* Claims about the teacher-forced rollout.

FwdSteps == Len(fw_writes)

\* C8: the rollout starts from a zero recurrent state and the <SOS> input,
\* performs exactly max_caption_len + 1 decoder steps, writes the step-t
\* log-probabilities at time index t for t = 1 .. max_caption_len + 1 in
\* increasing order, each index once, and never writes time index 0 of the
\* buffer of max_caption_len + 2 time steps.
C8_RolloutWritesOneToLPlus1 ==
    fw_pc # "idle" =>
        /\ DOMAIN fw_outputs = 0 .. (max_caption_len + 1)
        /\ fw_writes = [i \in 1 .. FwdSteps |-> i]
        /\ dec_calls = FwdSteps
        /\ FwdSteps <= max_caption_len + 1
        /\ \A b \in 1 .. batch_size :
              /\ fw_outputs[0][b] = ZeroRow
              /\ \A ti \in 1 .. (max_caption_len + 1) :
                    (fw_outputs[ti][b] = ZeroRow) <=> (ti > FwdSteps)
        /\ FwdSteps = 0 =>
              /\ fw_hidden = [b \in 1 .. batch_size |-> ZeroHidden]
              /\ fw_output = [b \in 1 .. batch_size |-> SOS_idx]
        /\ fw_pc = "done" => FwdSteps = max_caption_len + 1

C8_Witness ==
    /\ fw_pc = "done" /\ max_caption_len >= 2 /\ batch_size >= 2
    /\ fw_writes = [i \in 1 .. (max_caption_len + 1) |-> i]

\* C9: the input token of step t + 1 is the ground-truth token at time
\* index t when the step's draw is below teacher_forcing_ratio and the
\* argmax of step t's output otherwise; with ratio 0 it is the argmax at
\* every step and the caption tensor is never read; with ratio 1 it is the
\* ground-truth token at every step.
C9_NextInputByTeacherForcing ==
    /\ (fw_pc \in {"loop", "done"} /\ FwdSteps >= 1) =>
          LET tl == fw_writes[FwdSteps]
          IN  \A b \in 1 .. batch_size :
                  /\ fw_draw < teacher_forcing_ratio =>
                        /\ captions.given
                        /\ fw_output[b] = captions.data[tl][b]
                  /\ ~(fw_draw < teacher_forcing_ratio) =>
                        fw_output[b] \in ArgMaxSet(fw_outputs[tl][b])
                  /\ teacher_forcing_ratio = DrawLevels =>
                        fw_output[b] = captions.data[tl][b]
    /\ teacher_forcing_ratio = 0 =>
          /\ captions_reads = 0
          /\ fw_pc # "AttributeError"
    /\ teacher_forcing_ratio = DrawLevels => captions_reads = FwdSteps \/ ~captions.given
    /\ (fw_caller = "test" /\ FwdSteps >= 1 /\ fw_pc # "AttributeError") =>
          /\ captions_reads = 0
          /\ \A b \in 1 .. batch_size :
                fw_output[b] \in ArgMaxSet(fw_outputs[fw_writes[FwdSteps]][b])

C9_Witness ==
    /\ fw_pc = "done" /\ max_caption_len >= 2
    /\ 0 < teacher_forcing_ratio /\ teacher_forcing_ratio < DrawLevels
    /\ captions_reads >= 1 /\ captions_reads < FwdSteps
    /\ \E b \in 1 .. batch_size :
          fw_output[b] # captions.data[fw_writes[FwdSteps]][b]

---------------------------------------------------------------------------
\* Claims about LossChecker.

RECURSIVE SumRange(_, _, _)
SumRange(seq, lo, hi) == IF lo > hi THEN 0 ELSE seq[hi] + SumRange(seq, lo, hi - 1)

\* C4: after n >= 1 successful updates, mean(last = k) with k > 0 returns,
\* per component and in component order, the arithmetic mean of the most
\* recent k recorded values (of all n when k > n), mean(last = 0) the mean
\* of all n values, and mean never changes the recorded values.
C4_MeanOfTrailingWindow ==
    [][ (lc_op' = "mean" /\ Len(losses[1]) >= 1) =>
          LET n == Len(losses[1])
              k == IF lc_last' = 0 \/ lc_last' > n THEN n ELSE lc_last'
          IN  /\ losses' = losses
              /\ lc_status' = "ok"
              /\ Len(mean_losses') = num_losses
              /\ \A i \in 1 .. num_losses :
                    /\ mean_losses'[i].den > 0
                    /\ mean_losses'[i].num * k =
                          SumRange(losses[i], n - k + 1, n) * mean_losses'[i].den
      ]_vars

C4_Witness ==
    /\ lc_op = "mean" /\ lc_status = "ok" /\ num_losses = 2
    /\ losses = << <<0, 1, 2>>, <<1, 3, 5>> >>
    /\ lc_last = 2
    /\ mean_losses = << [num |-> 3, den |-> 2], [num |-> 4, den |-> 1] >>

---------------------------------------------------------------------------
\* Claims about score and save_result.

\* C5: score and save_result fail whenever the key sets of the prediction
\* map and the reference map differ, in either direction; score then
\* calls no scorer, save_result creates no directory and writes no line.
C5_KeySetMismatchFails ==
    (sr_op \in {"score", "save_result"} /\ PredKeys(vid2pred) # DOMAIN vid2GTs) =>
        /\ sr_status = "AssertionError"
        /\ scorer_calls = <<>> /\ final_scores = {}
        /\ makedirs_calls = 0
        /\ ~fout.opened /\ fout.lines = <<>>

C5_Witness ==
    /\ sr_op = "save_result" /\ sr_status = "AssertionError"
    /\ PredKeys(vid2pred) = {1} /\ DOMAIN vid2GTs = {1, 2}
    /\ ~save_dpath_exists /\ makedirs_calls = 0 /\ fout.lines = <<>>

---------------------------------------------------------------------------
\* Claims about idxs_to_sentence.

\* The number of indices after the first that come before the first EOS_idx
\* (all of them when EOS_idx does not occur).
EmittedCount(seq) ==
    LET later == 2 .. Len(seq)
        ends == {p \in later : seq[p] = EOS_idx}
    IN  IF ends = {} THEN Cardinality(later)
        ELSE (CHOOSE p \in ends : \A q \in ends : p <= q) - 2

\* C6: idxs_to_sentence skips the first index, emits the word of each
\* following index in order up to but excluding the first EOS_idx (or to
\* the end), emits nothing for an index at or after it, and joins the words
\* with single spaces.
C6_SentenceStopsAtFirstEOS ==
    its_pc = "returned" =>
        LET n == EmittedCount(idxs)
        IN  /\ Len(sentence) = (IF n = 0 THEN 0 ELSE 2 * n - 1)
            /\ \A j \in 1 .. n : sentence[2 * j - 1] = idx2word(idxs[j + 1])
            /\ \A j \in 1 .. (n - 1) : sentence[2 * j] = " "

C6_Witness ==
    /\ its_pc = "returned"
    /\ idxs = <<SOS_idx, 2, 0, EOS_idx, 2>>
    /\ sentence = <<idx2word(2), " ", idx2word(0)>>

---------------------------------------------------------------------------
\* Claims about configuration (de)serialisation.

\* x and its reconstruction y have the same attribute names, the same flat
\* values and, recursively, the same nested objects; `ignore` holds the
\* names of y's nested objects that are not compared.
RECURSIVE SameAttributes(_, _, _)
SameAttributes(x, y, ignore) ==
    /\ y.kind = "struct"
    /\ DOMAIN y.attrs \ ignore = public(DOMAIN x.attrs)
    /\ \A p \in public(DOMAIN x.attrs) :
          IF isclass(x.attrs[p])
          THEN SameAttributes(x.attrs[p], y.attrs[p], ignore)
          ELSE y.attrs[p] = x.attrs[p]

\* C3: dict_to_cls(cls_to_dict(x)) has the flat and nested attribute names
\* and values of x; the was_class marker is no attribute of a
\* reconstructed object.
C3_ConfigRoundTrip ==
    cfg_pc = "restored" => SameAttributes(config, config_restored, {})

\* The same statement with the was_class attribute of reconstructed nested
\* objects left out of the comparison.
ConfigRoundTripUpToMarker ==
    cfg_pc = "restored" =>
        /\ "was_class" \notin DOMAIN config_restored.attrs
        /\ SameAttributes(config, config_restored, {"was_class"})

---------------------------------------------------------------------------
\* Claims about get_predicted_captions.

\* The video ids of the iterator and the feature tensor of the first
\* occurrence of one.
SeenVids == UNION {Range(data_iter[k].vids) : k \in 1 .. Len(data_iter)}
FirstFeat(v) ==
    LET k == CHOOSE k \in 1 .. Len(data_iter) :
                 /\ v \in Range(data_iter[k].vids)
                 /\ \A h \in 1 .. (k - 1) : v \notin Range(data_iter[h].vids)
        j == CHOOSE j \in 1 .. Len(data_iter[k].vids) :
                 /\ data_iter[k].vids[j] = v
                 /\ \A i \in 1 .. (j - 1) : data_iter[k].vids[i] # v
    IN  data_iter[k].feats[j]

PredictedEachVideoOnce ==
    /\ DOMAIN gp_vid2pred = SeenVids
    /\ Len(describe_calls) = Len(onlyonce_iter)
    /\ \A c \in 1 .. Len(describe_calls) :
          /\ Len(describe_calls[c]) <= onlyonce_batch_size
          /\ describe_calls[c] = onlyonce_iter[c].feats
    /\ \A v \in SeenVids :
          /\ Cardinality({<<c, i>> \in
                 UNION {{<<c, i>> : i \in 1 .. Len(onlyonce_iter[c].vids)} :
                           c \in 1 .. Len(onlyonce_iter)} :
                     onlyonce_iter[c].vids[i] = v}) = 1
          /\ \A c \in 1 .. Len(onlyonce_iter) : \A i \in 1 .. Len(onlyonce_iter[c].vids) :
                onlyonce_iter[c].vids[i] = v =>
                    /\ describe_calls[c][i] = FirstFeat(v)
                    /\ gp_vid2pred[v] = idxs_to_sentence(describe(FirstFeat(v), gp_beam_width,
                                                                   gp_beam_alpha), EOS_idx)

\* C10: for any batch iterator, with repeated video ids within and across
\* batches, get_predicted_captions returns; describe has then run on each
\* distinct video id exactly once, on the features of its first
\* occurrence, in chunks of at most 100 videos, and the mapping returned
\* has exactly the distinct ids as keys.
C10_PredictsEachVideoOnce ==
    /\ gp_pc # "TypeError"
    /\ gp_pc = "done" => PredictedEachVideoOnce

\* The same statement for runs on a Python 2 interpreter.
PredictsEachVideoOnceOnPython2 ==
    py_major = 2 =>
        /\ gp_pc # "TypeError"
        /\ gp_pc = "done" => PredictedEachVideoOnce

---------------------------------------------------------------------------
\* Claims about evaluate.

\* C11: every beam search that evaluate runs for its predictions uses the
\* beam width and the length-normalization exponent of evaluate's own
\* parameters: what the caller passed, or 5 and 0 where the caller
\* omitted them.
C11_EvaluatePassesBeamParameters ==
    ev_pc # "idle" =>
        \A c \in 1 .. Len(describe_kwargs) :
            /\ describe_kwargs[c].beam_width = ev_beam_width
            /\ describe_kwargs[c].beam_alpha = ev_beam_alpha

\* What the code does instead: every beam search of evaluate runs with the
\* width and exponent written at line 183.
EvaluateDescribesWithWrittenParameters ==
    ev_pc # "idle" =>
        \A c \in 1 .. Len(describe_kwargs) :
            /\ describe_kwargs[c].beam_width = evaluate_passed_beam_width
            /\ describe_kwargs[c].beam_alpha = evaluate_passed_beam_alpha

====
